---- MODULE Spec2Model ----
(***************************************************************************)
(* A model of the NACA 4-digit airfoil generator                           *)
(* (naca_airfoil_generator.py): the designation parser, the coordinate     *)
(* generator, the DXF writer create_dxf_airfoil and the command line       *)
(* entry point main.                                                       *)
(*                                                                         *)
(* Numbers.  The program computes in binary floating point.  The model     *)
(* computes on a binary grid: a real v is the integer round(v * Scale),    *)
(* so that a decimal literal such as 0.4 is rounded when it is read, as    *)
(* it is in the program.  Every product and quotient is rounded to the     *)
(* grid, to nearest and symmetrically in the sign, as an IEEE operation    *)
(* is; the library                                                         *)
(* functions (sqrt, cos, sin, arctan) are evaluated to the grid's          *)
(* resolution and are exact where the floating-point ones are exact        *)
(* (sqrt 0, sqrt 1, cos 0, cos pi, sin 0, arctan 0).  A chord length is    *)
(* held in tenths of a millimetre, an output coordinate in 1/Scale mm.     *)
(*                                                                         *)
(* Strings.  A string is a sequence of characters; a character is one of   *)
(* the tokens of Alphabet, which holds ASCII digits, a letter, and two     *)
(* non-ASCII characters for which str.isdigit() is true.                   *)
(***************************************************************************)
EXTENDS Integers, Sequences, FiniteSets, TLC

VARIABLES entry, naca, chord, numPoints, pc, err, exitCode,
          params, loc, coords, generated, docCreated, doc, saved

vars == <<entry, naca, chord, numPoints, pc, err, exitCode,
          params, loc, coords, generated, docCreated, doc, saved>>

\* ------------------------------------------------------------- bounds

\* Longest input string given to the parser.
MaxLen == 5

\* Largest point count given to the generator.
MaxPoints == 11

\* Grid points per unit: the resolution of the model's arithmetic.
Scale == 8192

\* ---------------------------------------------------------- characters

AsciiDigits == {"0", "1", "2", "4", "5"}

\* "a": a letter; "ar2": ARABIC-INDIC DIGIT TWO (U+0662, category Nd);
\* "sup2": SUPERSCRIPT TWO (U+00B2, category No, Numeric_Type=Digit).
Alphabet == AsciiDigits \cup {"a", "ar2", "sup2"}

\* str.isdigit() on one character.
IsDigitChar(c) == c \in AsciiDigits \cup {"ar2", "sup2"}

\* int() accepts the decimal digits (category Nd) of any script.
IsDecimalChar(c) == c \in AsciiDigits \cup {"ar2"}

DigitValue(c) ==
    CASE c = "0" -> 0
      [] c = "1" -> 1
      [] c = "2" -> 2
      [] c = "ar2" -> 2
      [] c = "4" -> 4
      [] c = "5" -> 5
      [] OTHER -> 0

\* str.isdigit(): every character is a digit and there is at least one.
IsDigit(s) == Len(s) > 0 /\ \A i \in 1..Len(s) : IsDigitChar(s[i])

\* int(s) raises ValueError unless every character is a decimal digit.
IntParses(s) == Len(s) > 0 /\ \A i \in 1..Len(s) : IsDecimalChar(s[i])

RECURSIVE IntOf(_)
IntOf(s) ==
    IF Len(s) = 0 THEN 0
    ELSE 10 * IntOf(SubSeq(s, 1, Len(s) - 1)) + DigitValue(s[Len(s)])

\* ---------------------------------------------------------- the parser

NoParams == <<>>

\* The check of line 29: the designation is rejected.
Rejected(s) == Len(s) # 4 \/ ~IsDigit(s)

\* The three int() conversions of lines 32-34 all succeed.
Converts(s) ==
    /\ IntParses(SubSeq(s, 1, 1))
    /\ IntParses(SubSeq(s, 2, 2))
    /\ IntParses(SubSeq(s, 3, Len(s)))

\* A slice that starts one character late: int(naca_string[3:]).
ThicknessLastDigit(s) == SubSeq(s, 4, Len(s))

\* Line 34: the slice naca_string[2:].
ThicknessDigits(s) == SubSeq(s, 3, Len(s))

ParseFails(s) == Rejected(s) \/ ~Converts(s)

\* parse_naca_4digit: (max_camber_percent, max_camber_position,
\* thickness_percent); called only when ~ParseFails(s).
ParseValue(s) ==
    << IntOf(SubSeq(s, 1, 1)), IntOf(SubSeq(s, 2, 2)), IntOf(ThicknessDigits(s)) >>

\* ---------------------------------------------------------- arithmetic

Abs(a) == IF a < 0 THEN -a ELSE a

\* a / b rounded to the nearest integer, halves away from zero (b > 0).
RoundDiv(a, b) ==
    LET q == (2 * Abs(a) + b) \div (2 * b)
    IN  IF a < 0 THEN -q ELSE q

\* The grid value of the decimal literal num/den.
Lit(num, den) == RoundDiv(num * Scale, den)

\* Floating-point product and quotient, rounded to the grid.
Mul(a, b) == RoundDiv(a * b, Scale)

Div(a, b) == IF b < 0 THEN RoundDiv(-(a * Scale), -b) ELSE RoundDiv(a * Scale, b)

\* The integer square root of v >= 0, rounded to nearest.
RECURSIVE ISqrtIn(_, _, _)
ISqrtIn(v, lo, hi) ==
    IF lo >= hi THEN lo
    ELSE LET mid == (lo + hi + 1) \div 2
         IN  IF mid * mid <= v THEN ISqrtIn(v, mid, hi) ELSE ISqrtIn(v, lo, mid - 1)

ISqrt(v) ==
    LET r == ISqrtIn(v, 0, 40000)
    IN  IF v - r * r > r THEN r + 1 ELSE r

\* np.sqrt on the grid.
Sqrt(a) == ISqrt(a * Scale)

\* np.pi
Pi == Lit(31416, 10000)

HalfPi == RoundDiv(Pi, 2)

\* cos on [0, pi/2]: the series 1 - b^2/2! + b^4/4! - ... - b^10/10!.
CosSeries(b) ==
    LET b2 == Mul(b, b)
        t5 == Scale - RoundDiv(b2, 90)
        t4 == Scale - Mul(RoundDiv(b2, 56), t5)
        t3 == Scale - Mul(RoundDiv(b2, 30), t4)
        t2 == Scale - Mul(RoundDiv(b2, 12), t3)
    IN  Scale - Mul(RoundDiv(b2, 2), t2)

\* np.cos: even, and cos(b) = -cos(pi - b) above pi/2.
Cos(b) ==
    LET a == Abs(b)
    IN  IF a > HalfPi THEN -CosSeries(Pi - a) ELSE CosSeries(a)

\* np.sin on [-pi/2, pi/2]: the series b - b^3/3! + ... + b^9/9!.
Sin(b) ==
    LET b2 == Mul(b, b)
        t4 == Scale - RoundDiv(b2, 72)
        t3 == Scale - Mul(RoundDiv(b2, 42), t4)
        t2 == Scale - Mul(RoundDiv(b2, 20), t3)
        t1 == Scale - Mul(RoundDiv(b2, 6), t2)
    IN  Mul(b, t1)

\* tan(arctan(s) / 2) = s / (1 + sqrt(1 + s^2))
HalfAngle(s) == Div(s, Scale + Sqrt(Scale + Mul(s, s)))

\* arctan near 0: the series u - u^3/3 + u^5/5 - u^7/7 + u^9/9.
ArctanSeries(u) ==
    LET u2 == Mul(u, u)
        t4 == RoundDiv(Scale, 7) - Mul(u2, RoundDiv(Scale, 9))
        t3 == RoundDiv(Scale, 5) - Mul(u2, t4)
        t2 == RoundDiv(Scale, 3) - Mul(u2, t3)
        t1 == Scale - Mul(u2, t2)
    IN  Mul(u, t1)

\* np.arctan: the argument is halved twice, arctan(s) = 4 arctan(u).
Arctan(s) == 4 * ArctanSeries(HalfAngle(HalfAngle(s)))

\* ------------------------------------------------------- the generator

\* np.linspace(start, stop, num) for num >= 0: num - 1 equal steps, the
\* last sample set to stop itself; one sample is start; none is empty.
Linspace(start, stop, num) ==
    LET step == IF num > 1 THEN RoundDiv(stop - start, num - 1) ELSE 0
    IN  [i \in 1..num |-> IF num > 1 /\ i = num THEN stop
                          ELSE start + (i - 1) * step]

\* Lines 59-60: cosine spacing, x = (1 - cos(beta)) / 2.
Station(b) == RoundDiv(Scale - Cos(b), 2)

Stations(num) ==
    LET beta == Linspace(0, Pi, num)
    IN  [i \in 1..num |-> Station(beta[i])]

\* Line 63: the half-thickness at station x for thickness ratio t.
HalfThickness(t, x) ==
    LET x2 == Mul(x, x)
        x3 == Mul(x2, x)
        x4 == Mul(x3, x)
    IN  Mul(5 * t,
            Mul(Lit(2969, 10000), Sqrt(x)) - Mul(Lit(1260, 10000), x)
              - Mul(Lit(3516, 10000), x2) + Mul(Lit(2843, 10000), x3)
              - Mul(Lit(1015, 10000), x4))

\* An array that is not cleared: np.ones_like(x).
OnesLike(x) == [i \in 1..Len(x) |-> Scale]

\* Lines 66-67: np.zeros_like(x).
ZerosLike(x) == [i \in 1..Len(x) |-> 0]

\* Line 69: the guard of the cambered branch.
Cambered(m, p) == m > 0 /\ p > 0

\* Lines 71 and 76: the two masks.
Mask1(x, p) == [i \in 1..Len(x) |-> x[i] <= p]

\* The aft mask with the comparison turned round.
Mask2Forward(x, p) == [i \in 1..Len(x) |-> x[i] < p]

Mask2(x, p) == [i \in 1..Len(x) |-> x[i] > p]

\* Lines 72-73: forward of the maximum camber.
CamberFwd(m, p, x) == Mul(Div(m, Mul(p, p)), Mul(2 * p, x) - Mul(x, x))

SlopeFwd(m, p, x) == Mul(Div(2 * m, Mul(p, p)), p - x)

\* Lines 77-78: aft of the maximum camber.
CamberAft(m, p, x) ==
    Mul(Div(m, Mul(Scale - p, Scale - p)),
        (Scale - 2 * p) + Mul(2 * p, x) - Mul(x, x))

SlopeAft(m, p, x) == Mul(Div(2 * m, Mul(Scale - p, Scale - p)), p - x)

\* A masked assignment a[mask] = v[mask], v holding the right-hand side at
\* every index.
Assign(a, mask, v) == [i \in 1..Len(a) |-> IF mask[i] THEN v[i] ELSE a[i]]

\* Lines 84-89: the surface points about the camber point (x, yc).
UpperX(x, yt, theta) == x - Mul(yt, Sin(theta))

UpperY(yc, yt, theta) == yc + Mul(yt, Cos(theta))

\* The lower x with the sign of the upper one.
LowerXAsUpper(x, yt, theta) == x - Mul(yt, Sin(theta))

LowerX(x, yt, theta) == x + Mul(yt, Sin(theta))

LowerY(yc, yt, theta) == yc - Mul(yt, Cos(theta))

\* Lines 92-95: a normalised coordinate times the chord (in tenths of a
\* millimetre), in 1/Scale mm.
ScaleBy(v, c) == RoundDiv(v * c, 10)

NoLocals ==
    [m |-> 0, p |-> 0, t |-> 0, x |-> <<>>, yt |-> <<>>, mask1 |-> <<>>,
     mask2 |-> <<>>, yc |-> <<>>, dyc |-> <<>>, theta |-> <<>>]

\* Lines 54-81: the local values of naca_4digit_coordinates for the parsed
\* designation prm and num >= 0 points.
Locals(prm, num) ==
    LET m == Lit(prm[1], 100)
        p == Lit(prm[2], 10)
        t == Lit(prm[3], 100)
        x == Stations(num)
        yt == [i \in 1..num |-> HalfThickness(t, x[i])]
        yc0 == ZerosLike(x)
        dyc0 == ZerosLike(x)
        mask1 == Mask1(x, p)
        mask2 == Mask2(x, p)
        fwd == [i \in 1..num |-> CamberFwd(m, p, x[i])]
        fwdS == [i \in 1..num |-> SlopeFwd(m, p, x[i])]
        aft == [i \in 1..num |-> CamberAft(m, p, x[i])]
        aftS == [i \in 1..num |-> SlopeAft(m, p, x[i])]
        yc == IF Cambered(m, p)
              THEN Assign(Assign(yc0, mask1, fwd), mask2, aft)
              ELSE yc0
        dyc == IF Cambered(m, p)
               THEN Assign(Assign(dyc0, mask1, fwdS), mask2, aftS)
               ELSE dyc0
    IN  [m |-> m, p |-> p, t |-> t, x |-> x, yt |-> yt,
         mask1 |-> IF Cambered(m, p) THEN mask1 ELSE <<>>,
         mask2 |-> IF Cambered(m, p) THEN mask2 ELSE <<>>,
         yc |-> yc, dyc |-> dyc,
         theta |-> [i \in 1..num |-> Arctan(dyc[i])]]

NoCoords == [xu |-> <<>>, yu |-> <<>>, xl |-> <<>>, yl |-> <<>>]

\* Lines 83-97: the four returned arrays.
Surfaces(L, c) ==
    LET n == Len(L.x)
    IN  [xu |-> [i \in 1..n |-> ScaleBy(UpperX(L.x[i], L.yt[i], L.theta[i]), c)],
         yu |-> [i \in 1..n |-> ScaleBy(UpperY(L.yc[i], L.yt[i], L.theta[i]), c)],
         xl |-> [i \in 1..n |-> ScaleBy(LowerX(L.x[i], L.yt[i], L.theta[i]), c)],
         yl |-> [i \in 1..n |-> ScaleBy(LowerY(L.yc[i], L.yt[i], L.theta[i]), c)]]

\* ------------------------------------------------------------ the sink

\* End points apart only when they differ in x and in y.
ApartInBoth(ax, ay, bx, by) ==
    Abs(ax - bx) > Lit(1, 1000) /\ Abs(ay - by) > Lit(1, 1000)

\* Lines 127 and 131: two end points do not coincide within 0.001.
Apart(ax, ay, bx, by) ==
    Abs(ax - bx) > Lit(1, 1000) \/ Abs(ay - by) > Lit(1, 1000)

Reverse(q) == [i \in 1..Len(q) |-> q[Len(q) + 1 - i]]

Points(xs, ys) == [i \in 1..Len(xs) |-> <<xs[i], ys[i]>>]

Polyline(pts) == [type |-> "LWPOLYLINE", points |-> pts, close |-> FALSE]

Line(a, b) == [type |-> "LINE", points |-> <<a, b>>, close |-> FALSE]

\* Lines 135-141: the label, its height and insertion point.
Text(c) ==
    [type |-> "TEXT",
     points |-> << <<ScaleBy(Lit(1, 10), c), ScaleBy(Lit(2, 10), c)>>,
                   <<ScaleBy(Lit(5, 100), c), 0>> >>,
     close |-> FALSE]

\* Lines 127-128: the leading edge connection, if any.
LeadingLine(cs) ==
    IF Apart(cs.xu[1], cs.yu[1], cs.xl[1], cs.yl[1])
    THEN << Line(<<cs.xu[1], cs.yu[1]>>, <<cs.xl[1], cs.yl[1]>>) >>
    ELSE << >>

\* Lines 131-132: the trailing edge connection, if any.
TrailingLine(cs) ==
    LET k == Len(cs.xu)
    IN  IF Apart(cs.xu[k], cs.yu[k], cs.xl[k], cs.yl[k])
        THEN << Line(<<cs.xu[k], cs.yu[k]>>, <<cs.xl[k], cs.yl[k]>>) >>
        ELSE << >>

\* -------------------------------------------------------------- inputs

\* Line 183: the smallest point count main accepts.
MinPoints == 10

EntryPoints == {"main", "create_dxf_airfoil", "naca_4digit_coordinates"}

Designations ==
    { <<"2", "4", "1", "2">>, <<"0", "0", "1", "2">>, <<"4", "4", "1", "2">>,
      <<"2", "0", "1", "2">>, <<"0", "4", "1", "2">>, <<"2", "4", "0", "0">>,
      <<"2", "5", "1", "2">>, <<"5", "1", "4", "5">>, <<"4", "2", "1", "2">>,
      <<"2", "4", "1">>, <<"2", "4", "1", "2", "4">>, <<"2", "4", "a", "2">>,
      <<"ar2", "4", "1", "2">>, <<"2", "4", "sup2", "2">> }

\* Chord lengths, in tenths of a millimetre: -5.0, 0.0, 0.1, 50.5, 100.0.
Chords == {-50, 0, 1, 505, 1000}

PointCounts == -1..MaxPoints

\* The strings of k characters.
StringsOfLen(k) == [1..k -> Alphabet]

\* --------------------------------------------------------- the actions

InitCommon ==
    /\ pc = "call"
    /\ err = "none"
    /\ exitCode = -1
    /\ params = NoParams
    /\ loc = NoLocals
    /\ coords = NoCoords
    /\ generated = FALSE
    /\ docCreated = FALSE
    /\ doc = << >>
    /\ saved = FALSE

Init ==
    /\ entry \in EntryPoints
    /\ naca \in Designations
    /\ chord \in Chords
    /\ numPoints \in PointCounts
    /\ InitCommon

\* An exception leaves the function: main catches it, prints it and exits
\* with status 1 (lines 193-198); any other caller receives it.
Raise(e) ==
    /\ err' = e
    /\ pc' = IF entry = "main" THEN "exit" ELSE "raised"
    /\ exitCode' = IF entry = "main" THEN 1 ELSE exitCode

\* Lines 178-188 of main: the checks of the chord and of the point count.
MainValidate ==
    /\ entry = "main"
    /\ pc = "call"
    /\ IF chord <= 0 \/ numPoints < MinPoints
       THEN Raise("ValueError")
       ELSE /\ pc' = "create"
            /\ UNCHANGED <<err, exitCode>>
    /\ UNCHANGED <<entry, naca, chord, numPoints, params, loc, coords,
                   generated, docCreated, doc, saved>>

\* naca_4digit_coordinates (lines 51-97), called by create_dxf_airfoil at
\* line 111 or directly.  parse_naca_4digit raises ValueError; so does
\* np.linspace for a negative number of samples.
GenerateCoordinates ==
    /\ \/ entry = "main" /\ pc = "create"
       \/ entry \in {"create_dxf_airfoil", "naca_4digit_coordinates"} /\ pc = "call"
    /\ IF ParseFails(naca) \/ numPoints < 0
       THEN /\ Raise("ValueError")
            /\ UNCHANGED <<params, loc, coords, generated>>
       ELSE /\ params' = ParseValue(naca)
            /\ loc' = Locals(ParseValue(naca), numPoints)
            /\ coords' = Surfaces(loc', chord)
            /\ generated' = TRUE
            /\ pc' = IF entry = "naca_4digit_coordinates" THEN "done" ELSE "new_doc"
            /\ UNCHANGED <<err, exitCode>>
    /\ UNCHANGED <<entry, naca, chord, numPoints, docCreated, doc, saved>>

\* Lines 114-115: ezdxf.new and doc.modelspace().
NewDocument ==
    /\ pc = "new_doc"
    /\ docCreated' = TRUE
    /\ doc' = << >>
    /\ pc' = "polylines"
    /\ UNCHANGED <<entry, naca, chord, numPoints, err, exitCode, params, loc,
                   coords, generated, saved>>

\* Lines 118-123: the upper surface, then the lower surface reversed.
AddPolylines ==
    /\ pc = "polylines"
    /\ doc' = doc \o << Polyline(Points(coords.xu, coords.yu)),
                        Polyline(Points(Reverse(coords.xl), Reverse(coords.yl))) >>
    /\ pc' = "closing"
    /\ UNCHANGED <<entry, naca, chord, numPoints, err, exitCode, params, loc,
                   coords, generated, docCreated, saved>>

\* Lines 127-132: the connecting lines.  xu[0] of an empty array raises
\* IndexError.
AddClosingLines ==
    /\ pc = "closing"
    /\ IF Len(coords.xu) = 0
       THEN /\ Raise("IndexError")
            /\ UNCHANGED doc
       ELSE /\ doc' = doc \o LeadingLine(coords) \o TrailingLine(coords)
            /\ pc' = "text"
            /\ UNCHANGED <<err, exitCode>>
    /\ UNCHANGED <<entry, naca, chord, numPoints, params, loc, coords,
                   generated, docCreated, saved>>

\* Lines 135-141: the text annotation.
AddText ==
    /\ pc = "text"
    /\ doc' = Append(doc, Text(chord))
    /\ pc' = "save"
    /\ UNCHANGED <<entry, naca, chord, numPoints, err, exitCode, params, loc,
                   coords, generated, docCreated, saved>>

\* Lines 144-145: doc.saveas writes the file.
SaveAs ==
    /\ pc = "save"
    /\ saved' = TRUE
    /\ pc' = "stats"
    /\ UNCHANGED <<entry, naca, chord, numPoints, err, exitCode, params, loc,
                   coords, generated, docCreated, doc>>

\* Lines 148-152: the designation is parsed again for the printed summary;
\* create_dxf_airfoil returns, and main ends with status 0.
PrintStatistics ==
    /\ pc = "stats"
    /\ IF ParseFails(naca)
       THEN /\ Raise("ValueError")
            /\ UNCHANGED params
       ELSE /\ params' = ParseValue(naca)
            /\ pc' = "done"
            /\ exitCode' = IF entry = "main" THEN 0 ELSE exitCode
            /\ UNCHANGED err
    /\ UNCHANGED <<entry, naca, chord, numPoints, loc, coords, generated,
                   docCreated, doc, saved>>

Next ==
    \/ MainValidate
    \/ GenerateCoordinates
    \/ NewDocument
    \/ AddPolylines
    \/ AddClosingLines
    \/ AddText
    \/ SaveAs
    \/ PrintStatistics

Spec == Init /\ [][Next]_vars

\* The parser alone, on every string over Alphabet of length <= MaxLen.
InitParse ==
    /\ entry = "parse_naca_4digit"
    /\ \E k \in 0..MaxLen : naca \in StringsOfLen(k)
    /\ chord = 0
    /\ numPoints = 0
    /\ InitCommon

\* parse_naca_4digit (lines 29-36), called directly.
ParseDesignation ==
    /\ entry = "parse_naca_4digit"
    /\ pc = "call"
    /\ IF ParseFails(naca)
       THEN /\ Raise("ValueError")
            /\ UNCHANGED params
       ELSE /\ params' = ParseValue(naca)
            /\ pc' = "done"
            /\ UNCHANGED <<err, exitCode>>
    /\ UNCHANGED <<entry, naca, chord, numPoints, loc, coords, generated,
                   docCreated, doc, saved>>

NextParse == ParseDesignation

SpecParse == InitParse /\ [][NextParse]_vars

\* -------------------------------------------------------------- claims

\* What the specification calls a valid designation: exactly four ASCII
\* digits.
FourAsciiDigits(s) == Len(s) = 4 /\ \A i \in 1..Len(s) : s[i] \in AsciiDigits

AsciiValue(c) ==
    CASE c = "0" -> 0 [] c = "1" -> 1 [] c = "2" -> 2 [] c = "3" -> 3
      [] c = "4" -> 4 [] c = "5" -> 5 [] c = "6" -> 6 [] c = "7" -> 7
      [] c = "8" -> 8 [] c = "9" -> 9

DigitChar(d) ==
    CASE d = 0 -> "0" [] d = 1 -> "1" [] d = 2 -> "2" [] d = 3 -> "3"
      [] d = 4 -> "4" [] d = 5 -> "5" [] d = 6 -> "6" [] d = 7 -> "7"
      [] d = 8 -> "8" [] d = 9 -> "9"

\* The decimal numeral of n >= 0.
RECURSIVE Numeral(_)
Numeral(n) ==
    IF n < 10 THEN << DigitChar(n) >>
    ELSE Append(Numeral(n \div 10), DigitChar(n % 10))

\* The numeral of n, padded with zeros on the left to two characters.
Numeral2(n) == IF n < 10 THEN << "0" >> \o Numeral(n) ELSE Numeral(n)

\* The re-encoding of shape parameters as a designation.
Encode(prm) == Numeral(prm[1]) \o Numeral(prm[2]) \o Numeral2(prm[3])

Finished == pc \in {"done", "exit", "raised"}

\* C1: parse fails for every input that is not exactly four ASCII digits,
\* constructing no parameters, and succeeds only on four ASCII digits.
C1_RejectsAllButFourAsciiDigits ==
    (entry = "parse_naca_4digit" /\ Finished) =>
        /\ ~FourAsciiDigits(naca) => (err = "ValueError" /\ params = NoParams)
        /\ pc = "done" => FourAsciiDigits(naca)

\* C2: generate fails for every chord length <= 0, for any valid
\* designation, and returns no coordinates.
C2_RejectsNonPositiveChord ==
    (entry = "naca_4digit_coordinates" /\ Finished
       /\ FourAsciiDigits(naca) /\ numPoints >= 2 /\ chord <= 0) =>
        (err # "none" /\ ~generated /\ coords = NoCoords)

\* C3: generate fails for every point count below 2, for any valid
\* designation, and returns no coordinates.
C3_RejectsFewerThanTwoPoints ==
    (entry = "naca_4digit_coordinates" /\ Finished
       /\ FourAsciiDigits(naca) /\ chord > 0 /\ numPoints < 2) =>
        (err # "none" /\ ~generated /\ coords = NoCoords)

\* C4: on four ASCII digits d0 d1 d2 d3 parse returns (d0, d1, 10*d2 + d3),
\* within 0..9, 0..9 and 0..99, and re-encoding the result gives the
\* original string.
C4_ParseRoundTrip ==
    (entry = "parse_naca_4digit" /\ Finished /\ FourAsciiDigits(naca)) =>
        /\ pc = "done"
        /\ params = << AsciiValue(naca[1]), AsciiValue(naca[2]),
                       10 * AsciiValue(naca[3]) + AsciiValue(naca[4]) >>
        /\ params[1] \in 0..9 /\ params[2] \in 0..9 /\ params[3] \in 0..99
        /\ Encode(params) = naca

\* A thickness with a leading zero has been parsed.
C4_Witness ==
    /\ entry = "parse_naca_4digit" /\ pc = "done"
    /\ naca = <<"2", "4", "0", "5">> /\ params = <<2, 4, 5>>

\* An input the specification rejects: a designation that is not four
\* ASCII digits, a chord <= 0, a point count below 2.
InvalidInput == ~FourAsciiDigits(naca) \/ chord <= 0 \/ numPoints < 2

\* C5: every error is detected before any result is produced: a run of
\* main or create_dxf_airfoil on an invalid input ends in an error with no
\* file written, and an error is raised before the document is created.
C5_ErrorsBeforeAnyResult ==
    entry \in {"main", "create_dxf_airfoil"} =>
        /\ (Finished /\ InvalidInput) => (err # "none" /\ ~saved)
        /\ err # "none" => (~docCreated /\ ~saved)

\* C6: with maxCamberPercent = 0 or camberPositionTenths = 0 the camber
\* height and slope are 0 at every station, the masked branch is not
\* entered, upper x equals lower x and upper y is the negative of lower y.
C6_SymmetricWithoutCamber ==
    (generated /\ (params[1] = 0 \/ params[2] = 0)) =>
        /\ loc.mask1 = << >> /\ loc.mask2 = << >>
        /\ \A i \in 1..Len(coords.xu) :
              /\ loc.yc[i] = 0 /\ loc.dyc[i] = 0
              /\ coords.xu[i] = coords.xl[i]
              /\ coords.yu[i] = -coords.yl[i]

\* A designation with camber 2 at position 0 has given a profile of
\* nonzero thickness.
C6_Witness ==
    /\ generated /\ params = <<2, 0, 12>> /\ chord > 0
    /\ Len(coords.yu) >= 3 /\ coords.yu[2] > 0 /\ coords.yl[2] < 0

\* C7: for every call of generate the stations are non-decreasing, lie in
\* [0, 1], and the first is 0 and the last is 1, whatever the point count.
C7_StationEndpoints ==
    generated =>
        /\ \A i \in 1..Len(loc.x) : 0 <= loc.x[i] /\ loc.x[i] <= Scale
        /\ \A i, j \in 1..Len(loc.x) : i <= j => loc.x[i] <= loc.x[j]
        /\ Len(loc.x) >= 1 => (loc.x[1] = 0 /\ loc.x[Len(loc.x)] = Scale)

\* C8: the four returned sequences have the requested length, and at each
\* index the upper and the lower point lie about the camber point of the
\* same station, displaced by (-yt sin, +yt cos) and (+yt sin, -yt cos):
\* their midpoint is the camber point and their difference is twice the
\* offset, up to the rounding of the final scaling.
C8_AlignedSurfaces ==
    generated =>
        /\ Len(coords.xu) = numPoints /\ Len(coords.yu) = numPoints
        /\ Len(coords.xl) = numPoints /\ Len(coords.yl) = numPoints
        /\ Len(loc.x) = numPoints
        /\ \A i \in 1..numPoints :
              LET dx == Mul(loc.yt[i], Sin(loc.theta[i]))
                  dy == Mul(loc.yt[i], Cos(loc.theta[i]))
              IN  /\ Abs(coords.xu[i] + coords.xl[i] - ScaleBy(2 * loc.x[i], chord)) <= 2
                  /\ Abs(coords.yu[i] + coords.yl[i] - ScaleBy(2 * loc.yc[i], chord)) <= 2
                  /\ Abs(coords.xl[i] - coords.xu[i] - ScaleBy(2 * dx, chord)) <= 2
                  /\ Abs(coords.yu[i] - coords.yl[i] - ScaleBy(2 * dy, chord)) <= 2

\* A cambered profile of five points whose upper and lower points at the
\* second station differ in x and in y.
C8_Witness ==
    /\ generated /\ numPoints = 5 /\ params = <<2, 4, 12>> /\ chord = 1000
    /\ coords.xu[2] < coords.xl[2] /\ coords.yu[2] > coords.yl[2]

\* The branch selection of a cambered designation: each station is in
\* exactly one mask, the forward one exactly when x <= p, and holds the
\* value of that branch's formulas.
OneBranchPerStation ==
    /\ Len(loc.mask1) = numPoints /\ Len(loc.mask2) = numPoints
    /\ \A i \in 1..numPoints :
          /\ loc.mask1[i] # loc.mask2[i]
          /\ loc.mask1[i] <=> (loc.x[i] <= loc.p)
          /\ loc.yc[i] = IF loc.x[i] <= loc.p
                         THEN CamberFwd(loc.m, loc.p, loc.x[i])
                         ELSE CamberAft(loc.m, loc.p, loc.x[i])
          /\ loc.dyc[i] = IF loc.x[i] <= loc.p
                          THEN SlopeFwd(loc.m, loc.p, loc.x[i])
                          ELSE SlopeAft(loc.m, loc.p, loc.x[i])

ClosingLinesOf(d) == SelectSeq(d, LAMBDA e : e.type = "LINE")

\* C10: the document holds the upper and the reversed lower sequence as
\* two open polylines, a segment between the first points exactly when
\* they differ by more than 0.001 in x or in y, and independently one
\* between the last points.
C10_ClosingSegments ==
    (docCreated /\ pc \in {"text", "save", "stats", "done"}) =>
        LET k == Len(coords.xu)
            tol == RoundDiv(Scale, 1000)
            u1 == <<coords.xu[1], coords.yu[1]>>
            l1 == <<coords.xl[1], coords.yl[1]>>
            uk == <<coords.xu[k], coords.yu[k]>>
            lk == <<coords.xl[k], coords.yl[k]>>
            first == Abs(u1[1] - l1[1]) > tol \/ Abs(u1[2] - l1[2]) > tol
            last == Abs(uk[1] - lk[1]) > tol \/ Abs(uk[2] - lk[2]) > tol
            lines == ClosingLinesOf(doc)
        IN  /\ doc[1].type = "LWPOLYLINE" /\ ~doc[1].close
            /\ doc[1].points = [i \in 1..k |-> <<coords.xu[i], coords.yu[i]>>]
            /\ doc[2].type = "LWPOLYLINE" /\ ~doc[2].close
            /\ doc[2].points = [i \in 1..k |-> <<coords.xl[k + 1 - i], coords.yl[k + 1 - i]>>]
            /\ lines = (IF first THEN << Line(u1, l1) >> ELSE << >>)
                         \o (IF last THEN << Line(uk, lk) >> ELSE << >>)

\* A saved drawing whose trailing edge is open and has its closing
\* segment, and whose leading edge coincides and has none.
C10_Witness ==
    /\ pc = "done" /\ saved /\ numPoints >= 10
    /\ Len(ClosingLinesOf(doc)) = 1
    /\ coords.yu[numPoints] - coords.yl[numPoints] > RoundDiv(Scale, 1000)
    /\ coords.yu[1] = coords.yl[1] /\ coords.xu[1] = coords.xl[1]

====
